---- MODULE Spec2Model ----
(***************************************************************************)
(* Conway's Game of Life (src/main.py): the generation engine              *)
(* next_board_state, the neighbourhood enumerator get_neighbour_set and    *)
(* the pygame host loop main / check_input around them.                    *)
(*                                                                         *)
(* Four specifications share the variables below; each keeps the variables *)
(* of the other three at an idle value.                                    *)
(*   SpecNbr   one call of get_neighbour_set(cell, cell_range)             *)
(*   SpecGen   a caller applying next_board_state generation by generation *)
(*   SpecStep  one call of next_board_state, statement by statement, the   *)
(*             two set iterations taken in every order                     *)
(*   Spec      the host: main's frame loop with check_input                *)
(* A Python list is a sequence read through getitem (0-based indexes).     *)
(* A cell is a pair <<x, y>> of unbounded integers.                        *)
(***************************************************************************)
EXTENDS Integers, FiniteSets, Sequences, TLC

VARIABLES
    \* get_neighbour_set call
    cell, cell_range, nresult, npc,
    \* caller iterating generations
    board, prev, start, gen,
    \* next_board_state, statement level
    heap, live_cells, next_cells, live_iter, live_cell, neighbour_iter, ret, spc,
    \* host
    nodes, GLOBALS, event, position, hpc

nbrVars  == <<cell, cell_range, nresult, npc>>
genVars  == <<board, prev, start, gen>>
stepVars == <<heap, live_cells, next_cells, live_iter, live_cell, neighbour_iter, ret, spc>>
hostVars == <<nodes, GLOBALS, event, position, hpc>>
vars     == <<nbrVars, genVars, stepVars, hostVars>>

----------------------------------------------------------------------------
(* Bounds of the model *)

\* cells handed to get_neighbour_set have coordinates in -MaxAbsCoord .. MaxAbsCoord
MaxAbsCoord == 2
\* cell_range handed to get_neighbour_set is in -MaxRange .. MaxRange
MaxRange == 3
\* seed boards of SpecGen are the subsets of a BoxW x BoxH box (and the glider)
BoxW == 3
BoxH == 2
\* generations a caller of SpecGen applies
MaxGen == 4
\* inputs of SpecStep are the sets of cells <<x, y>>, x, y >= 0, x + y < StepSize
StepSize == 2
\* the window of the host, in pixels
WINDOWWIDTH == 31
WINDOWHEIGHT == 16

(* Program constants *)
DefaultCellRange == 1
SQUARE_SIDE_LENGTH == 15

----------------------------------------------------------------------------
(* Python helpers *)

\* range(a, b)
range(a, b) == a .. (b - 1)

\* a // b for b > 0 (floor division)
FloorDiv(a, b) == a \div b

----------------------------------------------------------------------------
(* get_neighbour_set *)

\* get_neighbour_set with range(-cell_range, cell_range), the upper end lost
get_neighbour_set_short_range(c, r) ==
    LET xs == {c[1] + mod : mod \in range(-r, r)}
        ys == {c[2] + mod : mod \in range(-r, r)}
        product == xs \X ys
    IN  IF c \in product
        THEN [raised |-> "none", value |-> product \ {c}]
        ELSE [raised |-> "KeyError", value |-> {}]

\* set.remove raises KeyError when the element is missing; there is no other
\* check of cell_range.
get_neighbour_set(c, r) ==
    LET cell_x == c[1]
        cell_y == c[2]
        xs == {cell_x + mod : mod \in range(-r, r + 1)}
        ys == {cell_y + mod : mod \in range(-r, r + 1)}
        product == xs \X ys
    IN  IF c \in product
        THEN [raised |-> "none", value |-> product \ {c}]
        ELSE [raised |-> "KeyError", value |-> {}]

NbrCells == (-MaxAbsCoord .. MaxAbsCoord) \X (-MaxAbsCoord .. MaxAbsCoord)

NbrIdle ==
    /\ cell = <<0, 0>>
    /\ cell_range = DefaultCellRange
    /\ nresult = [raised |-> "none", value |-> {}]
    /\ npc = "idle"

GenIdle ==
    /\ board = {}
    /\ prev = {}
    /\ start = {}
    /\ gen = 0

StepIdle ==
    /\ heap = <<>>
    /\ live_cells = 0
    /\ next_cells = 0
    /\ live_iter = {}
    /\ live_cell = <<>>
    /\ neighbour_iter = {}
    /\ ret = 0
    /\ spc = "idle"

HostIdle ==
    /\ nodes = <<>>
    /\ GLOBALS = <<>>
    /\ event = [type |-> "none", key |-> "none"]
    /\ position = <<>>
    /\ hpc = "idle"

InitNbr ==
    /\ cell \in NbrCells
    /\ cell_range \in -MaxRange .. MaxRange
    /\ nresult = [raised |-> "none", value |-> {}]
    /\ npc = "call"
    /\ GenIdle /\ StepIdle /\ HostIdle

CallGetNeighbourSet ==
    /\ npc = "call"
    /\ nresult' = get_neighbour_set(cell, cell_range)
    /\ npc' = IF nresult'.raised = "none" THEN "returned" ELSE "raised"
    /\ UNCHANGED <<cell, cell_range, genVars, stepVars, hostVars>>

NextNbr == CallGetNeighbourSet

SpecNbr == InitNbr /\ [][NextNbr]_vars

----------------------------------------------------------------------------
(* next_board_state, as a function of its argument *)

\* len(neighbour_set.intersection(live_cells)) for the neighbours of c
live_neighbours(c, live) ==
    Cardinality(get_neighbour_set(c, DefaultCellRange).value \cap live)

\* lines 21-22 with "in [3]"
survive_only_three(c, live, next) ==
    IF live_neighbours(c, live) \in {3} THEN next \cup {c} ELSE next

\* lines 21-22: does this cell continue to live
survive(c, live, next) ==
    IF live_neighbours(c, live) \in {2, 3} THEN next \cup {c} ELSE next

\* lines 27-32 with "in [2, 3]", the test of line 21
inner_body_two_or_three(n, live, next) ==
    IF live_neighbours(n, live) \in {2, 3} THEN next \cup {n} ELSE next

\* lines 27-32 with ">= 3"
inner_body_three_or_more(n, live, next) ==
    IF live_neighbours(n, live) >= 3 THEN next \cup {n} ELSE next

\* lines 27-32: the body of the inner loop for one neighbour_cell.  The test
\* of line 27 guards a pass statement, so both of its branches go on to
\* line 30.
inner_body(n, live, next) ==
    LET after_pass == IF n \in live \/ n \in next THEN next ELSE next
    IN  IF live_neighbours(n, live) = 3 THEN after_pass \cup {n} ELSE after_pass

RECURSIVE inner_loop(_, _)
\* lines 25-32, the neighbours taken in one fixed order; the state of the
\* loop is [iter |-> neighbours not yet visited, next |-> next_cells]
inner_loop(st, live) ==
    IF st.iter = {} THEN st.next
    ELSE LET n == CHOOSE n \in st.iter : TRUE
         IN  inner_loop([iter |-> st.iter \ {n},
                         next |-> inner_body(n, live, st.next)], live)

RECURSIVE outer_loop(_, _)
\* lines 16-32, the live cells taken in one fixed order; the state of the
\* loop is [iter |-> live cells not yet visited, next |-> next_cells]
outer_loop(st, live) ==
    IF st.iter = {} THEN st.next
    ELSE LET c == CHOOSE c \in st.iter : TRUE
             neighbours == get_neighbour_set(c, DefaultCellRange).value
         IN  outer_loop([iter |-> st.iter \ {c},
                         next |-> inner_loop([iter |-> neighbours,
                                              next |-> survive(c, live, st.next)],
                                             live)], live)

\* lines 12-34
next_board_state(live) == outer_loop([iter |-> live, next |-> {}], live)

----------------------------------------------------------------------------
(* SpecGen: a caller that holds a live set and replaces it generation by  *)
(* generation                                                             *)

Glider == {<<1, 0>>, <<2, 1>>, <<0, 2>>, <<1, 2>>, <<2, 2>>}

Translate(S, dx, dy) == {<<c[1] + dx, c[2] + dy>> : c \in S}

GenBox == ((-1) .. (BoxW - 2)) \X ((-1) .. (BoxH - 2))

InitGen ==
    /\ start \in (SUBSET GenBox) \cup {Glider}
    /\ board = start
    /\ prev = start
    /\ gen = 0
    /\ NbrIdle /\ StepIdle /\ HostIdle

Generation ==
    /\ gen < MaxGen
    /\ prev' = board
    /\ board' = next_board_state(board)
    /\ gen' = gen + 1
    /\ UNCHANGED <<start, nbrVars, stepVars, hostVars>>

NextGen == Generation

SpecGen == InitGen /\ [][NextGen]_vars

----------------------------------------------------------------------------
(* SpecStep: one call of next_board_state, statement by statement.  Sets  *)
(* are objects on a heap (heap[id] is the membership of object id);       *)
(* live_cells, next_cells and ret hold object ids, 0 for unbound.         *)
(* live_iter and neighbour_iter are what the two for loops have not yet   *)
(* visited; a set is iterated in an arbitrary order.                      *)

StepCells == {c \in (0 .. StepSize) \X (0 .. StepSize) : c[1] + c[2] < StepSize}

InitStep ==
    /\ \E L \in SUBSET StepCells : heap = (1 :> L)
    /\ live_cells = 1
    /\ next_cells = 0
    /\ live_iter = {}
    /\ live_cell = <<>>
    /\ neighbour_iter = {}
    /\ ret = 0
    /\ spc = "line14"
    /\ NbrIdle /\ GenIdle /\ HostIdle

\* line 14 written as next_cells = live_cells
NewNextCells_alias ==
    /\ spc = "line14"
    /\ next_cells' = live_cells
    /\ live_iter' = heap[live_cells]
    /\ spc' = "outer"
    /\ UNCHANGED <<heap, live_cells, live_cell, neighbour_iter, ret,
                   nbrVars, genVars, hostVars>>

\* line 14: next_cells = set(); line 16: the iteration of live_cells begins
NewNextCells ==
    /\ spc = "line14"
    /\ LET id == Cardinality(DOMAIN heap) + 1
       IN  /\ next_cells' = id
           /\ heap' = heap @@ (id :> {})
    /\ live_iter' = heap[live_cells]
    /\ spc' = "outer"
    /\ UNCHANGED <<live_cells, live_cell, neighbour_iter, ret,
                   nbrVars, genVars, hostVars>>

\* lines 16-22: the next live_cell, its neighbour set, its survival
OuterStep ==
    /\ spc = "outer"
    /\ \E c \in live_iter :
        /\ live_cell' = c
        /\ live_iter' = live_iter \ {c}
        /\ neighbour_iter' = get_neighbour_set(c, DefaultCellRange).value
        /\ heap' = [heap EXCEPT ![next_cells] = survive(c, heap[live_cells], @)]
    /\ spc' = "inner"
    /\ UNCHANGED <<live_cells, next_cells, ret, nbrVars, genVars, hostVars>>

\* lines 25-32 with break in the place of pass
InnerStep_break ==
    /\ spc = "inner"
    /\ \E n \in neighbour_iter :
        IF n \in heap[live_cells] \/ n \in heap[next_cells]
        THEN /\ neighbour_iter' = {}
             /\ UNCHANGED heap
        ELSE /\ neighbour_iter' = neighbour_iter \ {n}
             /\ heap' = [heap EXCEPT ![next_cells] = inner_body(n, heap[live_cells], @)]
    /\ UNCHANGED <<live_cells, next_cells, live_iter, live_cell, ret, spc,
                   nbrVars, genVars, hostVars>>

\* lines 25-32: one neighbour_cell of the inner loop
InnerStep ==
    /\ spc = "inner"
    /\ \E n \in neighbour_iter :
        /\ neighbour_iter' = neighbour_iter \ {n}
        /\ heap' = [heap EXCEPT ![next_cells] = inner_body(n, heap[live_cells], @)]
    /\ UNCHANGED <<live_cells, next_cells, live_iter, live_cell, ret, spc,
                   nbrVars, genVars, hostVars>>

\* line 25: the inner loop is exhausted, back to line 16
InnerDone ==
    /\ spc = "inner"
    /\ neighbour_iter = {}
    /\ spc' = "outer"
    /\ UNCHANGED <<heap, live_cells, next_cells, live_iter, live_cell,
                   neighbour_iter, ret, nbrVars, genVars, hostVars>>

\* line 34: the outer loop is exhausted, return next_cells
Return ==
    /\ spc = "outer"
    /\ live_iter = {}
    /\ ret' = next_cells
    /\ spc' = "done"
    /\ UNCHANGED <<heap, live_cells, next_cells, live_iter, live_cell,
                   neighbour_iter, nbrVars, genVars, hostVars>>

NextStep == NewNextCells \/ OuterStep \/ InnerStep \/ InnerDone \/ Return

SpecStep == InitStep /\ [][NextStep]_vars

----------------------------------------------------------------------------
(* Spec: the host.  main's loop body is three places: "draw" (lines       *)
(* 236-242), "input" (the event loop of check_input, with "handle" while  *)
(* one event is being handled) and "tick" (lines 246-253).  event is the  *)
(* loop variable of line 191.  position is what pygame.mouse.get_pos()    *)
(* gives for the click being handled (a pixel of the window); it is bound *)
(* only while that event is handled.                                      *)

\* list[i] for 0 <= i < len(list)
getitem(list, i) == list[i + 1]

\* Square.__init__
Square(x, y) == [x |-> x, y |-> y, alive |-> FALSE]

RECURSIVE set_squares_row(_, _, _)
\* lines 158-164: one row of squares
set_squares_row(x, y, row) ==
    IF x <= WINDOWWIDTH
    THEN set_squares_row(x + SQUARE_SIDE_LENGTH, y, Append(row, Square(x, y)))
    ELSE row

RECURSIVE set_squares_rows(_, _)
\* lines 152-166
set_squares_rows(y, rows) ==
    IF y <= WINDOWHEIGHT
    THEN set_squares_rows(y + SQUARE_SIDE_LENGTH,
                          Append(rows, set_squares_row(0, y, <<>>)))
    ELSE rows

\* SquareList.set_squares: the new value of self.nodes
set_squares == set_squares_rows(0, <<>>)

\* live_node_indexes that leaves the squares alive
live_node_indexes_keeps_alive(ns) ==
    [value |-> {<<FloorDiv(ns[r][c].x, SQUARE_SIDE_LENGTH),
                  FloorDiv(ns[r][c].y, SQUARE_SIDE_LENGTH)>> :
                    <<r, c>> \in {rc \in (DOMAIN ns) \X (DOMAIN ns[1]) :
                                     ns[rc[1]][rc[2]].alive}},
     nodes |-> ns]

\* SquareList.live_node_indexes: the set it returns and the squares it
\* leaves behind (every live square is set dead, line 145)
live_node_indexes(ns) ==
    [value |-> {<<FloorDiv(ns[r][c].x, SQUARE_SIDE_LENGTH),
                  FloorDiv(ns[r][c].y, SQUARE_SIDE_LENGTH)>> :
                    <<r, c>> \in {rc \in (DOMAIN ns) \X (DOMAIN ns[1]) :
                                     ns[rc[1]][rc[2]].alive}},
     nodes |-> [r \in DOMAIN ns |->
                  [c \in DOMAIN ns[r] |-> [ns[r][c] EXCEPT !.alive = FALSE]]]]

\* lines 249-253: the squares after the new live cells inside the grid are
\* set alive
show_new_live_cells(ns, new_live_cells) ==
    LET shown == {new_live_cell \in new_live_cells :
                     /\ new_live_cell[2] \in range(0, Len(ns))
                     /\ new_live_cell[1] \in range(0, Len(getitem(ns, new_live_cell[2])))}
    IN  [r \in DOMAIN ns |->
           [c \in DOMAIN ns[r] |->
              IF <<c - 1, r - 1>> \in shown
              THEN [ns[r][c] EXCEPT !.alive = TRUE]
              ELSE ns[r][c]]]

\* find_clicked_square with the two indexes exchanged
find_clicked_square_swapped(p, ns) ==
    LET x == p[1]
        y == p[2]
        col_num == FloorDiv(y, SQUARE_SIDE_LENGTH)
        row_num == FloorDiv(x, SQUARE_SIDE_LENGTH)
    IN  IF row_num < Len(ns) /\ col_num < Len(getitem(ns, 0))
        THEN [raised |-> "none", row_num |-> row_num, col_num |-> col_num]
        ELSE [raised |-> "IndexError", row_num |-> row_num, col_num |-> col_num]

\* find_clicked_square: the indexes of the square it returns; a list index
\* past the end raises IndexError (p has no negative coordinate)
find_clicked_square(p, ns) ==
    LET x == p[1]
        y == p[2]
        col_num == FloorDiv(x, SQUARE_SIDE_LENGTH)
        row_num == FloorDiv(y, SQUARE_SIDE_LENGTH)
    IN  IF row_num < Len(ns) /\ col_num < Len(getitem(ns, row_num))
        THEN [raised |-> "none", row_num |-> row_num, col_num |-> col_num]
        ELSE [raised |-> "IndexError", row_num |-> row_num, col_num |-> col_num]

Pixels == (0 .. (WINDOWWIDTH - 1)) \X (0 .. (WINDOWHEIGHT - 1))

Keys == {"K_RETURN", "K_BACKSPACE", "K_ESCAPE", "K_OTHER"}

Events ==
    {[type |-> t, key |-> "none"] : t \in {"QUIT", "MOUSEBUTTONDOWN", "OTHER"}}
        \cup {[type |-> "KEYDOWN", key |-> k] : k \in Keys}

Init ==
    /\ nodes = set_squares
    /\ GLOBALS = [RunAlg |-> FALSE]
    /\ event = [type |-> "none", key |-> "none"]
    /\ position = <<>>
    /\ hpc = "draw"
    /\ NbrIdle /\ GenIdle /\ StepIdle

\* lines 236-244: update, clock, fill, draw; check_input is entered
Draw ==
    /\ hpc = "draw"
    /\ hpc' = "input"
    /\ UNCHANGED <<nodes, GLOBALS, event, position, nbrVars, genVars, stepVars>>

\* line 191: the next event of the queue
GetEvent ==
    /\ hpc = "input"
    /\ \E e \in Events :
        /\ event' = e
        /\ IF e.type = "MOUSEBUTTONDOWN"
           THEN position' \in Pixels
           ELSE position' = <<>>
    /\ hpc' = "handle"
    /\ UNCHANGED <<nodes, GLOBALS, nbrVars, genVars, stepVars>>

\* lines 193-194 and terminate
HandleQuit ==
    /\ hpc = "handle"
    /\ event.type = "QUIT"
    /\ hpc' = "terminated"
    /\ UNCHANGED <<nodes, GLOBALS, event, position, nbrVars, genVars, stepVars>>

\* lines 197-202 without the test of line 199
HandleMouseButtonDown_unguarded ==
    /\ hpc = "handle"
    /\ event.type = "MOUSEBUTTONDOWN"
    /\ LET square == find_clicked_square(position, nodes)
       IN  IF square.raised = "none"
           THEN /\ nodes' = [nodes EXCEPT ![square.row_num + 1][square.col_num + 1].alive = ~@]
                /\ hpc' = "input"
           ELSE /\ hpc' = "crashed"
                /\ UNCHANGED nodes
    /\ position' = <<>>
    /\ UNCHANGED <<GLOBALS, event, nbrVars, genVars, stepVars>>

\* lines 197-202
HandleMouseButtonDown ==
    /\ hpc = "handle"
    /\ event.type = "MOUSEBUTTONDOWN"
    /\ IF ~GLOBALS["RunAlg"]
       THEN LET square == find_clicked_square(position, nodes)
            IN  IF square.raised = "none"
                THEN /\ nodes' = [nodes EXCEPT ![square.row_num + 1][square.col_num + 1].alive = ~@]
                     /\ hpc' = "input"
                ELSE /\ hpc' = "crashed"
                     /\ UNCHANGED nodes
       ELSE /\ hpc' = "input"
            /\ UNCHANGED nodes
    /\ position' = <<>>
    /\ UNCHANGED <<GLOBALS, event, nbrVars, genVars, stepVars>>

\* lines 204-222
HandleKeyDown ==
    /\ hpc = "handle"
    /\ event.type = "KEYDOWN"
    /\ IF ~GLOBALS["RunAlg"]
       THEN IF event.key = "K_RETURN"
            THEN /\ GLOBALS' = [GLOBALS EXCEPT !["RunAlg"] = TRUE]
                 /\ UNCHANGED nodes
            ELSE IF event.key = "K_BACKSPACE"
            THEN /\ nodes' = set_squares
                 /\ GLOBALS' = ("isFinished" :> FALSE) @@ GLOBALS
            ELSE UNCHANGED <<nodes, GLOBALS>>
       ELSE IF event.key \in {"K_RETURN", "K_BACKSPACE"}
            THEN /\ GLOBALS' = [GLOBALS EXCEPT !["RunAlg"] = FALSE]
                 /\ UNCHANGED nodes
            ELSE UNCHANGED <<nodes, GLOBALS>>
    /\ hpc' = IF event.key = "K_ESCAPE" THEN "terminated" ELSE "input"
    /\ UNCHANGED <<event, position, nbrVars, genVars, stepVars>>

\* an event of any other type: no branch of lines 193-222 is taken
HandleOther ==
    /\ hpc = "handle"
    /\ event.type = "OTHER"
    /\ hpc' = "input"
    /\ UNCHANGED <<nodes, GLOBALS, event, position, nbrVars, genVars, stepVars>>

\* line 191: the queue is empty, check_input returns
EndInput ==
    /\ hpc = "input"
    /\ hpc' = "tick"
    /\ UNCHANGED <<nodes, GLOBALS, event, position, nbrVars, genVars, stepVars>>

\* lines 246-253
Tick ==
    /\ hpc = "tick"
    /\ IF GLOBALS["RunAlg"]
       THEN LET indexes == live_node_indexes(nodes)
                new_live_cells == next_board_state(indexes.value)
            IN  nodes' = show_new_live_cells(indexes.nodes, new_live_cells)
       ELSE UNCHANGED nodes
    /\ hpc' = "draw"
    /\ UNCHANGED <<GLOBALS, event, position, nbrVars, genVars, stepVars>>

Next ==
    \/ Draw
    \/ GetEvent
    \/ HandleQuit
    \/ HandleMouseButtonDown
    \/ HandleKeyDown
    \/ HandleOther
    \/ EndInput
    \/ Tick

Spec == Init /\ [][Next]_vars

----------------------------------------------------------------------------
(* The rules of Life, stated without the program's operators *)

Abs(i) == IF i < 0 THEN -i ELSE i

\* d is one of the 8 cells around c
IsMooreNeighbour(c, d) ==
    /\ d # c
    /\ Abs(d[1] - c[1]) <= 1
    /\ Abs(d[2] - c[2]) <= 1

\* how many of the 8 cells around c are in L
MooreCount(c, L) == Cardinality({d \in L : IsMooreNeighbour(c, d)})

\* the cells within distance 2 of a cell of L, and those around the origin
Surroundings(L) ==
    UNION {((d[1] - 2) .. (d[1] + 2)) \X ((d[2] - 2) .. (d[2] + 2)) : d \in L \cup {<<0, 0>>}}

----------------------------------------------------------------------------
(* Claims about get_neighbour_set (SpecNbr) *)

NbrCalled == npc \in {"returned", "raised"}

\* C3 (as claimed): get_neighbour_set called with any cell_range < 1, 0 and
\* negative values included, fails with an error and returns no neighbour
\* set.  Any raised exception is accepted as the error.
C3_RangeBelowOneFails ==
    (NbrCalled /\ cell_range < 1) => npc = "raised"

\* C4: for every cell, negative coordinates included, and every radius
\* r >= 1, get_neighbour_set returns exactly the cells at Chebyshev distance
\* 1 .. r of the cell: never the cell itself, (2r+1)^2 - 1 cells in all.
C4_NeighbourSetExact ==
    (NbrCalled /\ cell_range >= 1) =>
        LET far == MaxAbsCoord + MaxRange + 1
            plane == ((-far) .. far) \X ((-far) .. far)
            expected == {d \in plane : /\ d # cell
                                       /\ Abs(d[1] - cell[1]) <= cell_range
                                       /\ Abs(d[2] - cell[2]) <= cell_range}
        IN  /\ npc = "returned"
            /\ nresult.value = expected
            /\ cell \notin nresult.value
            /\ Cardinality(nresult.value)
                 = (2 * cell_range + 1) * (2 * cell_range + 1) - 1
            /\ (cell_range = 1 => Cardinality(nresult.value) = 8)

C4_Witness ==
    /\ npc = "returned"
    /\ cell_range = 2
    /\ cell[1] < 0 /\ cell[2] < 0
    /\ Cardinality(nresult.value) = 24

----------------------------------------------------------------------------
(* Claims about next_board_state as a function (SpecGen) *)

\* C1: a live cell of L is in next_board_state(L) iff exactly 2 or 3 of the
\* 8 cells around it are in L; a live cell with 0, 1 or 4+ live neighbours
\* is absent from the output.
C1_Survival ==
    gen > 0 =>
        \A c \in prev : (c \in board) <=> (MooreCount(c, prev) \in {2, 3})

C1_Witness ==
    /\ gen > 0
    /\ \E c \in prev : MooreCount(c, prev) >= 4 /\ c \notin board
    /\ \E c \in prev : MooreCount(c, prev) <= 1 /\ c \notin board
    /\ \E c \in prev : MooreCount(c, prev) = 2 /\ c \in board

\* C2: a cell not in L is in next_board_state(L) iff exactly 3 of the 8 cells
\* around it are in L; every cell of the output is in L or next to a cell of
\* L, and the empty set gives the empty set.
C2_Birth ==
    gen > 0 =>
        /\ \A c \in Surroundings(prev) \ prev :
               (c \in board) <=> (MooreCount(c, prev) = 3)
        /\ \A c \in board : c \in prev \/ \E d \in prev : IsMooreNeighbour(c, d)
        /\ (prev = {} => board = {})

C2_Witness ==
    /\ gen > 0
    /\ \E c \in board \ prev : MooreCount(c, prev) = 3
    /\ \E c \in Surroundings(prev) \ prev : MooreCount(c, prev) >= 4 /\ c \notin board

\* C6: from the glider {(1,0),(2,1),(0,2),(1,2),(2,2)}, 4 applications of
\* next_board_state give {(2,1),(3,2),(1,3),(2,3),(3,3)}, the glider moved by
\* (+1, +1), and none of generations 1, 2, 3 is the glider moved by (+1, +1).
C6_GliderTranslation ==
    start = Glider =>
        /\ (gen = 4 =>
              /\ board = {<<2, 1>>, <<3, 2>>, <<1, 3>>, <<2, 3>>, <<3, 3>>}
              /\ board = Translate(Glider, 1, 1))
        /\ (gen \in 1 .. 3 => board # Translate(Glider, 1, 1))

C6_Witness ==
    /\ start = Glider
    /\ gen = 4
    /\ board = Translate(Glider, 1, 1)

----------------------------------------------------------------------------
(* Claims about one call of next_board_state (SpecStep) *)

\* C5: whatever order the outer loop visits the live cells in and the inner
\* loop the neighbours in, the returned set is the same: the one the fixed
\* order of next_board_state gives.
C5_OrderIndependent ==
    spc = "done" => heap[ret] = next_board_state(heap[live_cells])

C5_Witness ==
    /\ spc = "done"
    /\ heap[ret] \ heap[live_cells] # {}
    /\ heap[ret] \cap heap[live_cells] # {}

\* C7: no step of next_board_state changes the membership of its argument,
\* and the set it returns is next_cells, an object other than the argument.
C7_ArgumentIntact ==
    /\ [][spc # "idle" =>
            /\ live_cells' = live_cells
            /\ heap'[live_cells] = heap[live_cells]]_vars
    /\ [](spc = "done" => ret = next_cells /\ ret # live_cells)

C7_Witness ==
    /\ spc = "done"
    /\ ret # live_cells
    /\ heap[live_cells] # {}
    /\ heap[ret] # heap[live_cells]

----------------------------------------------------------------------------
(* Claims about the host (Spec) *)

\* the <<column, row>> indexes of the squares that are alive
AliveIndexes(ns) ==
    {i \in (0 .. (Len(ns[1]) - 1)) \X (0 .. (Len(ns) - 1)) : ns[i[2] + 1][i[1] + 1].alive}

\* <<column, row>> is an index of the grid
InGrid(ns, i) ==
    /\ 0 <= i[2] /\ i[2] < Len(ns)
    /\ 0 <= i[1] /\ i[1] < Len(ns[i[2] + 1])

\* C8: on a frame whose run flag is true, the squares alive after the tick
\* are exactly the cells of next_board_state(A) inside the grid, A being the
\* <<column, row>> indexes of the squares alive before the tick.
C8_TickReplacesBoard ==
    [][(hpc = "tick" /\ GLOBALS["RunAlg"]) =>
          AliveIndexes(nodes') =
              {i \in next_board_state(AliveIndexes(nodes)) : InGrid(nodes, i)}]_vars

C8_Witness ==
    /\ hpc = "draw"
    /\ GLOBALS["RunAlg"]
    /\ AliveIndexes(nodes) = {<<1, 0>>, <<1, 1>>}

\* C9: while the run flag is true no event handled by check_input changes a
\* square: a click is ignored, Return or Backspace only sets the flag to
\* false; the squares change under check_input only while the flag is false.
C9_NoEditWhileRunning ==
    /\ [][(hpc = "handle" /\ GLOBALS["RunAlg"]) =>
            /\ nodes' = nodes
            /\ (event.type = "MOUSEBUTTONDOWN" => GLOBALS' = GLOBALS)
            /\ ((event.type = "KEYDOWN" /\ event.key \in {"K_RETURN", "K_BACKSPACE"})
                    => GLOBALS' = [GLOBALS EXCEPT !["RunAlg"] = FALSE])]_vars
    /\ [][(hpc = "handle" /\ nodes' # nodes) => ~GLOBALS["RunAlg"]]_vars

C9_Witness ==
    /\ hpc = "input"
    /\ GLOBALS["RunAlg"]
    /\ event.type = "MOUSEBUTTONDOWN"
    /\ AliveIndexes(nodes) # {}

\* C10: while the run flag is false the board never advances a generation,
\* and a click at pixel (x, y) of the window toggles exactly the square at
\* row y // SQUARE_SIDE_LENGTH, column x // SQUARE_SIDE_LENGTH, an index of
\* the grid, and leaves every other square and the flag as they were.
C10_PausedClickToggles ==
    /\ [][(hpc \in {"draw", "input", "tick"} /\ ~GLOBALS["RunAlg"]) => nodes' = nodes]_vars
    /\ [][(hpc = "handle" /\ ~GLOBALS["RunAlg"] /\ event.type = "MOUSEBUTTONDOWN") =>
            LET row == position[2] \div SQUARE_SIDE_LENGTH
                col == position[1] \div SQUARE_SIDE_LENGTH
            IN  /\ InGrid(nodes, <<col, row>>)
                /\ hpc' = "input"
                /\ nodes' = [nodes EXCEPT ![row + 1][col + 1].alive = ~@]
                /\ AliveIndexes(nodes') =
                      (AliveIndexes(nodes) \ {<<col, row>>})
                          \cup ({<<col, row>>} \ AliveIndexes(nodes))
                /\ nodes[row + 1][col + 1].x <= position[1]
                /\ position[1] < nodes[row + 1][col + 1].x + SQUARE_SIDE_LENGTH
                /\ nodes[row + 1][col + 1].y <= position[2]
                /\ position[2] < nodes[row + 1][col + 1].y + SQUARE_SIDE_LENGTH
                /\ GLOBALS' = GLOBALS]_vars

C10_Witness ==
    /\ hpc = "input"
    /\ ~GLOBALS["RunAlg"]
    /\ event.type = "MOUSEBUTTONDOWN"
    /\ AliveIndexes(nodes) = {<<1, 1>>}

====
